---- MODULE Spec2Model ----
(***************************************************************************)
(* The client-side store of the Deck board application: the stack module   *)
(* (src/src/store/stack.js, lines 29-111) and the root store with the      *)
(* board collection, the current board and its labels (same file, lines    *)
(* 154-358).  Mutations are pure operators on the collections they change; *)
(* each Vuex action is modelled by the step that dispatches it and by the  *)
(* steps that run its then/catch handlers when the remote call settles.    *)
(***************************************************************************)
EXTENDS Integers, Sequences, FiniteSets, Bags, TLC

VARIABLES
    stacks,        \* state.stacks of the stack module: the flat collection
    cards,         \* the flat collection of the card module
    boards,        \* state.boards of the root store
    currentBoard,  \* state.currentBoard: Null or the board object referred to
    currentSlot,   \* position in boards of the object currentBoard refers to, 0 if none
    boardFilter,   \* state.boardFilter
    calls,         \* remote calls in flight, with what their handlers captured
    last,          \* what the most recent step ran: handler, effects in order, outcome
    live           \* history: ids committed with addStack and not deleted afterwards

vars == <<stacks, cards, boards, currentBoard, currentSlot, boardFilter, calls, last, live>>

store == <<stacks, cards, boards, currentBoard, currentSlot, boardFilter>>

Null == [null |-> TRUE]

(***************************************************************************)
(* Bounds of the model.                                                    *)
(***************************************************************************)
NumStacks == 3

MaxCalls == 1

MaxId == 2

\* The longest sequence of stacks a load resolves with.
MaxLoad == 2

\* The most reorders dispatched in a row before a remote call comes back.
MaxOverlap == 2

(***************************************************************************)
(* What a handler did, in order: the entries of last.log.                  *)
(***************************************************************************)
Commit(m) == [e |-> "commit", m |-> m]

Call(m) == [e |-> "call", m |-> m]

Effect(x) == [e |-> x]

(***************************************************************************)
(* JavaScript helpers.                                                     *)
(***************************************************************************)

\* Object.assign({}, old, new): every field of new, then the fields only old has.
ObjectAssign(old, new) ==
    [f \in (DOMAIN old) \cup (DOMAIN new) |-> IF f \in DOMAIN new THEN new[f] ELSE old[f]]

\* Array.prototype.findIndex on the id field, 1-based; 0 stands for -1.
findIndex(s, id) ==
    IF \E i \in 1..Len(s) : s[i].id = id
    THEN CHOOSE i \in 1..Len(s) : s[i].id = id /\ \A j \in 1..(i - 1) : s[j].id # id
    ELSE 0

\* Array.prototype.splice(i, 1) for a 1-based position i.
RemoveAt(s, i) == SubSeq(s, 1, i - 1) \o SubSeq(s, i + 1, Len(s))

\* Array.prototype.splice(i, 0, x): x becomes the element at 1-based position i.
InsertAt(s, i, x) == SubSeq(s, 1, i - 1) \o <<x>> \o SubSeq(s, i, Len(s))

(***************************************************************************)
(* helpers/applyOrderToArray: remove the element at removedIndex, insert   *)
(* it at addedIndex of what is left.  Indices are 0-based as in the code.  *)
(***************************************************************************)
applyOrderToArray(array, removedIndex, addedIndex) ==
    InsertAt(RemoveAt(array, removedIndex + 1), addedIndex + 1, array[removedIndex + 1])

(***************************************************************************)
(* The stack module.                                                       *)
(***************************************************************************)

\* The positions in s of the stacks of board id, in the order filter() keeps.
FilterByBoard(s, id) ==
    LET OfBoard(i) == s[i].boardId = id
    IN  SelectSeq([i \in 1..Len(s) |-> i], OfBoard)

\* sort((a, b) => a.order - b.order) on positions of s: ascending order, ties
\* keeping the order of the input (the sort is stable).
SortByOrder(s, idx) ==
    LET Before(i, j) == \/ s[idx[i]].order < s[idx[j]].order
                        \/ s[idx[i]].order = s[idx[j]].order /\ i < j
        Rank(i) == Cardinality({j \in 1..Len(idx) : Before(j, i)}) + 1
    IN  [k \in 1..Len(idx) |-> idx[CHOOSE i \in 1..Len(idx) : Rank(i) = k]]

\* The filter of the board's stacks without the sort.
UnsortedPositions(s, id) == FilterByBoard(s, id)

\* The positions of board id's stacks in display order.
OrderedPositions(s, id) == SortByOrder(s, FilterByBoard(s, id))

\* getters.stacksByBoard
stacksByBoard(s, id) ==
    LET pos == OrderedPositions(s, id) IN [k \in 1..Len(pos) |-> s[pos[k]]]

\* obj.order = v: the field is set, or added when the object has none.
SetOrder(obj, v) ==
    [f \in (DOMAIN obj) \cup {"order"} |-> IF f = "order" THEN v ELSE obj[f]]

\* A re-stamping loop that counts from 1.
RestampFromOne(s, newOrder) ==
    [i \in 1..Len(s) |->
        IF \E k \in 1..Len(newOrder) : newOrder[k] = i
        THEN SetOrder(s[i], CHOOSE k \in 1..Len(newOrder) : newOrder[k] = i)
        ELSE s[i]]

\* mutations.orderStack, the re-stamping loop: newOrder[i].order = i
Restamp(s, newOrder) ==
    [i \in 1..Len(s) |->
        IF \E k \in 1..Len(newOrder) : newOrder[k] = i
        THEN SetOrder(s[i], (CHOOSE k \in 1..Len(newOrder) : newOrder[k] = i) - 1)
        ELSE s[i]]

\* An orderStack that sorts and restamps the whole collection, whatever the board.
orderStackAllBoards(s, payload) ==
    LET currentOrder == SortByOrder(s, [i \in 1..Len(s) |-> i])
        newOrder == applyOrderToArray(currentOrder, payload.removedIndex, payload.addedIndex)
    IN  Restamp(s, newOrder)

\* mutations.orderStack; the payload is destructured by field name
orderStack(s, payload) ==
    LET currentOrder == OrderedPositions(s, payload.stack.boardId)
        newOrder == applyOrderToArray(currentOrder, payload.removedIndex, payload.addedIndex)
    IN  Restamp(s, newOrder)

\* An add that pushes without looking for the id.
addStackPush(s, stack) == Append(s, stack)

\* An add that replaces the existing record instead of merging into it.
addStackReplace(s, stack) ==
    LET existingIndex == findIndex(s, stack.id)
    IN  IF existingIndex # 0
        THEN [s EXCEPT ![existingIndex] = stack]
        ELSE Append(s, stack)

\* mutations.addStack
addStack(s, stack) ==
    LET existingIndex == findIndex(s, stack.id)
    IN  IF existingIndex # 0
        THEN [s EXCEPT ![existingIndex] = ObjectAssign(s[existingIndex], stack)]
        ELSE Append(s, stack)

\* mutations.deleteStack
deleteStack(s, stack) ==
    LET existingIndex == findIndex(s, stack.id)
    IN  IF existingIndex # 0 THEN RemoveAt(s, existingIndex) ELSE s

\* An update that merges the payload into the record, or appends it when no
\* record has its id.
updateStackUpsert(s, stack) == addStack(s, stack)

\* mutations.updateStack
updateStack(s, stack) ==
    LET existingIndex == findIndex(s, stack.id)
    IN  IF existingIndex # 0 THEN [s EXCEPT ![existingIndex] = stack] ELSE s

(***************************************************************************)
(* Remote calls in flight.  A call keeps what its handlers captured; the   *)
(* fields before and clean are history: the order values of the board when *)
(* the reorder was dispatched, and whether no other mutation has touched   *)
(* that board's stacks since (before is dropped once it has).              *)
(***************************************************************************)
Pending == BagToSet(calls)

NumCalls == BagCardinality(calls)

RemoveCall(c) == calls (-) SetToBag({c})

\* The order value of every stack of board id, by stack id.
OrderOf(s, id) ==
    LET pos == FilterByBoard(s, id)
    IN  [x \in {s[pos[k]].id : k \in 1..Len(pos)} |-> s[findIndex(s, x)].order]

\* Another mutation touches the stacks of board id: reorders in flight on it
\* are no longer clean.
Touch(bag, id) ==
    LET touched(c) == IF c.op = "reorderStack" /\ c.boardId = id
                      THEN [c EXCEPT !.clean = FALSE, !.before = <<>>]
                      ELSE c
        img == {touched(c) : c \in BagToSet(bag)}
    IN  IF \A c \in BagToSet(bag) : touched(c) = c THEN bag
        ELSE
        [d \in img |-> LET pre == {c \in BagToSet(bag) : touched(c) = d}
                           Sum[S \in SUBSET pre] ==
                               IF S = {} THEN 0
                               ELSE LET c == CHOOSE c \in S : TRUE
                                    IN  bag[c] + Sum[S \ {c}]
                       IN  Sum[pre]]

(***************************************************************************)
(* actions.orderStack (lines 69-77)                                        *)
(***************************************************************************)

\* A reorder that waits for the remote call: the call is issued, nothing is committed.
orderStackAfterConfirm(stack, removedIndex, addedIndex) ==
    /\ calls' = calls (+)
                 SetToBag({[op |-> "reorderStack", boardId |-> stack.boardId,
                            removedIndex |-> removedIndex, addedIndex |-> addedIndex,
                            before |-> OrderOf(stacks, stack.boardId), clean |-> TRUE]})
    /\ last' = [act |-> "orderStack", phase |-> "dispatch",
                log |-> <<Call("reorderStack")>>, out |-> "undefined"]
    /\ UNCHANGED <<store, live>>

\* The commit of line 70 followed by the remote call of line 71.  Of the stack
\* object the handlers read boardId (in the mutation) and id (for the call).
orderStackAction(stack, removedIndex, addedIndex) ==
    /\ stacks' = orderStack(stacks, [stack |-> stack, removedIndex |-> removedIndex,
                                     addedIndex |-> addedIndex])
    /\ calls' = Touch(calls, stack.boardId) (+)
                 SetToBag({[op |-> "reorderStack", boardId |-> stack.boardId,
                            removedIndex |-> removedIndex, addedIndex |-> addedIndex,
                            before |-> OrderOf(stacks, stack.boardId), clean |-> TRUE]})
    /\ last' = [act |-> "orderStack", phase |-> "dispatch",
                log |-> <<Commit("orderStack"), Call("reorderStack")>>,
                out |-> "undefined"]
    /\ UNCHANGED <<cards, boards, currentBoard, currentSlot, boardFilter, live>>

\* reorderStack resolves: the action registered no then-handler.
orderStackResolved(c) ==
    /\ c.op = "reorderStack"
    /\ calls' = RemoveCall(c)
    /\ last' = [act |-> "orderStack", phase |-> "resolved", log |-> <<>>]
    /\ UNCHANGED <<store, live>>

\* A catch handler that rolls back only when no other reorder has touched the
\* board since the dispatch.
orderStackCatchIfClean(c, hasResponse) ==
    /\ c.op = "reorderStack"
    /\ IF hasResponse /\ c.clean
       THEN /\ stacks' = orderStack(stacks, [stack |-> [boardId |-> c.boardId],
                                             addedIndex |-> c.addedIndex,
                                             removedIndex |-> c.removedIndex])
            /\ calls' = Touch(RemoveCall(c), c.boardId)
       ELSE /\ stacks' = stacks
            /\ calls' = RemoveCall(c)
    /\ last' = [act |-> "orderStack", phase |-> "catch", hasResponse |-> hasResponse,
                log |-> IF hasResponse /\ c.clean
                        THEN <<Effect("notify"), Effect("console.error"), Commit("orderStack")>>
                        ELSE <<Effect("notify"), Effect("throw")>>,
                clean |-> c.clean]
    /\ UNCHANGED <<cards, boards, currentBoard, currentSlot, boardFilter, live>>

\* The catch handler of lines 72-76.  err.response is undefined for a failure
\* without a response, and reading err.response.data then throws before line 75.
\* Line 75 builds its payload with the shorthand { stack, addedIndex, removedIndex }:
\* each field carries the value of the variable of its own name.
orderStackCatch(c, hasResponse) ==
    /\ c.op = "reorderStack"
    /\ IF hasResponse
       THEN /\ stacks' = orderStack(stacks, [stack |-> [boardId |-> c.boardId],
                                             addedIndex |-> c.addedIndex,
                                             removedIndex |-> c.removedIndex])
            /\ calls' = Touch(RemoveCall(c), c.boardId)
       ELSE /\ stacks' = stacks
            /\ calls' = RemoveCall(c)
    /\ last' = [act |-> "orderStack", phase |-> "catch", hasResponse |-> hasResponse,
                log |-> IF hasResponse
                        THEN <<Effect("notify"), Effect("console.error"), Commit("orderStack")>>
                        ELSE <<Effect("notify"), Effect("throw")>>,
                clean |-> c.clean]
    /\ UNCHANGED <<cards, boards, currentBoard, currentSlot, boardFilter, live>>

(***************************************************************************)
(* The reorder engine on a loaded store: NumStacks stacks on the board on  *)
(* display (board 1) and two on another board, with the order values a     *)
(* load delivered: contiguous, reversed against the collection, all equal, *)
(* with gaps, or with gaps and duplicates.  The view lets the user drag    *)
(* the stacks of the board on display.                                     *)
(***************************************************************************)
StackIdsOrder == 1..(NumStacks + 2)

BoardOfOrder(id) == IF id <= NumStacks THEN 1 ELSE 2

LoadedOrders ==
    { [i \in StackIdsOrder |-> i - 1],
      [i \in StackIdsOrder |-> NumStacks + 2 - i],
      [i \in StackIdsOrder |-> 0],
      [i \in StackIdsOrder |-> 2 * i],
      [i \in StackIdsOrder |-> 3 * (i % 2)] }

Board(id) == [id |-> id, archived |-> FALSE, shared |-> 0, labels |-> <<>>]

Indices(s, boardId) == 0..(Len(FilterByBoard(s, boardId)) - 1)

InitOrder ==
    /\ \E o \in LoadedOrders :
            stacks = [i \in StackIdsOrder |->
                        [id |-> i, boardId |-> BoardOfOrder(i), order |-> o[i]]]
    /\ cards = <<>>
    /\ boards = <<Board(1), Board(2)>>
    /\ currentBoard = Board(1)
    /\ currentSlot = 1
    /\ boardFilter = ""
    /\ calls = EmptyBag
    /\ last = [act |-> "init", phase |-> "init", log |-> <<>>]
    /\ live = StackIdsOrder

NextOrder ==
    \/ \E removedIndex, addedIndex \in Indices(stacks, currentBoard.id) :
            /\ NumCalls < MaxCalls
            /\ orderStackAction(stacksByBoard(stacks, currentBoard.id)[removedIndex + 1],
                                removedIndex, addedIndex)
    \/ \E c \in Pending : orderStackResolved(c)
    \/ \E c \in Pending : \E hasResponse \in BOOLEAN : orderStackCatch(c, hasResponse)

SpecOrder == InitOrder /\ [][NextOrder]_vars

(***************************************************************************)
(* Properties of the reorder engine.                                       *)
(***************************************************************************)

\* The order values f (by stack id) are exactly 0..n-1.
Contiguous(f) ==
    /\ {f[x] : x \in DOMAIN f} = 0..(Cardinality(DOMAIN f) - 1)
    /\ \A x, y \in DOMAIN f : f[x] = f[y] => x = y

Ids(seq) == [k \in 1..Len(seq) |-> seq[k].id]

\* new is old with the element at index removedIndex taken out and put back at
\* index addedIndex (0-based).
IsMove(old, new, removedIndex, addedIndex) ==
    /\ Len(new) = Len(old)
    /\ new[addedIndex + 1] = old[removedIndex + 1]
    /\ RemoveAt(new, addedIndex + 1) = RemoveAt(old, removedIndex + 1)

\* The collection s with the order values f put back on the stacks of board id.
WithOrders(s, id, f) ==
    [i \in 1..Len(s) |-> IF s[i].boardId = id THEN [s[i] EXCEPT !.order = f[s[i].id]]
                         ELSE s[i]]

\* C1: when a reorder is dispatched on a board whose stacks carry the orders
\* 0..n-1, nothing else touches the board's stacks, and the remote call rejects
\* with a server response, the catch handler leaves every stack of the board
\* with the order value it had before the dispatch.
C1_RollbackRestoresOrder ==
    [][\A after \in {<<stacks', calls', last'>>} : \A c \in Pending :
          ( /\ after[3].act = "orderStack" /\ after[3].phase = "catch"
            /\ after[3].hasResponse /\ after[3].clean
            /\ c.op = "reorderStack" /\ c.clean /\ Contiguous(c.before)
            /\ after[2] = Touch(RemoveCall(c), c.boardId) )
          => OrderOf(after[1], c.boardId) = c.before]_vars

\* The stacks s are displayed in the order the reorder c in flight asked for.
ShowsNewOrder(s, c) ==
    \A prior \in {WithOrders(s, c.boardId, c.before)} :
    \A old \in {Ids(stacksByBoard(prior, c.boardId))} :
    \A new \in {stacksByBoard(s, c.boardId)} :
        /\ IsMove(old, Ids(new), c.removedIndex, c.addedIndex)
        /\ \A k \in 1..Len(new) : new[k].order = k - 1

\* C2: the dispatch commits the reorder and then issues the remote call, so
\* whenever a reorder is in flight and nothing else has touched the board, the
\* board's stacks are displayed in the new order; when the call resolves the
\* store is left as it is.
C2_OptimisticReorder ==
    [][\A after \in {<<stacks', calls', last'>>} :
        /\ (after[3].act = "orderStack" /\ after[3].phase = "dispatch")
            => /\ after[3].log = <<Commit("orderStack"), Call("reorderStack")>>
               /\ BagCardinality(after[2]) = BagCardinality(calls) + 1
        /\ \A c \in BagToSet(after[2]) :
              (c.op = "reorderStack" /\ c.clean) => ShowsNewOrder(after[1], c)
        /\ (after[3].act = "orderStack" /\ after[3].phase = "resolved") => store' = store
      ]_vars

\* A reorder that changes the display order is in flight, just dispatched.
C2_Witness ==
    /\ last.act = "orderStack" /\ last.phase = "dispatch"
    /\ \E c \in Pending : c.clean /\ c.removedIndex # c.addedIndex
                          /\ OrderOf(stacks, c.boardId) # c.before

(***************************************************************************)
(* The stack collection under direct commits: any sequence of the four     *)
(* mutations from the empty collection.  Payloads carry id, boardId and    *)
(* order, and may carry a title.                                           *)
(***************************************************************************)
StoreIds == 1..MaxId

StoreBoards == {1, 2}

StoreOrders == 0..(MaxId - 1)

StorePayloads ==
    {[id |-> i, boardId |-> b, order |-> o] :
        i \in StoreIds, b \in StoreBoards, o \in StoreOrders}
    \cup
    {[id |-> i, boardId |-> b, order |-> o, title |-> "a"] :
        i \in StoreIds, b \in StoreBoards, o \in StoreOrders}

InitStore ==
    /\ stacks = <<>>
    /\ cards = <<>>
    /\ boards = <<>>
    /\ currentBoard = Null
    /\ currentSlot = 0
    /\ boardFilter = ""
    /\ calls = EmptyBag
    /\ last = [act |-> "init", phase |-> "init", log |-> <<>>]
    /\ live = {}

\* commit('addStack', stack)
commitAddStack(stack) ==
    /\ stacks' = addStack(stacks, stack)
    /\ live' = live \cup {stack.id}
    /\ last' = [act |-> "addStack", phase |-> "commit", log |-> <<Commit("addStack")>>,
                existing |-> findIndex(stacks, stack.id) # 0,
                kept |-> IF findIndex(stacks, stack.id) # 0
                         THEN (DOMAIN stacks[findIndex(stacks, stack.id)]) \ (DOMAIN stack)
                         ELSE {}]
    /\ UNCHANGED <<cards, boards, currentBoard, currentSlot, boardFilter, calls>>

\* commit('updateStack', stack)
commitUpdateStack(stack) ==
    /\ stacks' = updateStack(stacks, stack)
    /\ last' = [act |-> "updateStack", phase |-> "commit", log |-> <<Commit("updateStack")>>,
                existing |-> findIndex(stacks, stack.id) # 0]
    /\ UNCHANGED <<cards, boards, currentBoard, currentSlot, boardFilter, calls, live>>

\* commit('deleteStack', stack)
commitDeleteStack(stack) ==
    /\ stacks' = deleteStack(stacks, stack)
    /\ live' = live \ {stack.id}
    /\ last' = [act |-> "deleteStack", phase |-> "commit", log |-> <<Commit("deleteStack")>>,
                existing |-> findIndex(stacks, stack.id) # 0]
    /\ UNCHANGED <<cards, boards, currentBoard, currentSlot, boardFilter, calls>>

\* commit('orderStack', { stack, removedIndex, addedIndex }); regular is history:
\* whether the board's order values were 0..n-1 before.
commitOrderStack(stack, removedIndex, addedIndex) ==
    /\ stacks' = orderStack(stacks, [stack |-> stack, removedIndex |-> removedIndex,
                                     addedIndex |-> addedIndex])
    /\ last' = [act |-> "orderStack", phase |-> "commit", log |-> <<Commit("orderStack")>>,
                boardId |-> stack.boardId,
                regular |-> \A k \in 1..Len(stacksByBoard(stacks, stack.boardId)) :
                                stacksByBoard(stacks, stack.boardId)[k].order = k - 1]
    /\ UNCHANGED <<cards, boards, currentBoard, currentSlot, boardFilter, calls, live>>

NextStore ==
    \/ \E stack \in StorePayloads : commitAddStack(stack)
    \/ \E stack \in StorePayloads : commitUpdateStack(stack)
    \/ \E id \in StoreIds : commitDeleteStack([id |-> id])
    \/ \E i \in 1..Len(stacks) :
         \E removedIndex, addedIndex \in Indices(stacks, stacks[i].boardId) :
            commitOrderStack(stacks[i], removedIndex, addedIndex)

SpecStore == InitStore /\ [][NextStore]_vars

(***************************************************************************)
(* Properties of the stack collection.                                     *)
(***************************************************************************)

\* C3: an orderStack mutation with valid indices leaves the stacks of the board
\* with the order values 0..n-1, each the position of the stack in the sequence
\* obtained from the order-sorted one by taking out the element at removedIndex
\* and putting it back at addedIndex, whatever the order values were before.
C3_OrderRestamping ==
    \A b \in StoreBoards : \A removedIndex, addedIndex \in Indices(stacks, b) :
        LET t == orderStack(stacks, [stack |-> [boardId |-> b],
                                     removedIndex |-> removedIndex,
                                     addedIndex |-> addedIndex])
            old == stacksByBoard(stacks, b)
            new == stacksByBoard(t, b)
        IN  /\ Len(t) = Len(stacks)
            /\ IsMove(Ids(old), Ids(new), removedIndex, addedIndex)
            /\ \A k \in 1..Len(new) : new[k].order = k - 1

\* An orderStack commit has re-stamped a board of two or more stacks whose order
\* values had duplicates or gaps.
C3_Witness ==
    /\ last.act = "orderStack" /\ last.phase = "commit" /\ ~last.regular
    /\ Len(stacksByBoard(stacks, last.boardId)) >= 2
    /\ \A k \in 1..Len(stacksByBoard(stacks, last.boardId)) :
          stacksByBoard(stacks, last.boardId)[k].order = k - 1

\* C4 as claimed: in every reachable state the order values of each board's
\* stacks are unique and form 0..n-1.
C4_OrderInvariant ==
    \A b \in StoreBoards : Contiguous(OrderOf(stacks, b))

\* C4 as amended: the order values of a board are unique and form 0..n-1 in the
\* state an orderStack mutation on that board leaves; deleteStack removes its
\* record and leaves the order value of every other record as it was.
C4_RestampedByReorderOnly ==
    [][\A after \in {<<stacks', last'>>} :
        /\ (after[2].act = "orderStack" /\ after[2].phase = "commit")
            => Contiguous(OrderOf(after[1], after[2].boardId))
        /\ (after[2].act = "deleteStack" /\ after[2].phase = "commit")
            => \A i \in 1..Len(after[1]) : \E j \in 1..Len(stacks) : after[1][i] = stacks[j]
      ]_vars

\* An orderStack commit has made one board's order values 0..n-1 while the other
\* board's stacks carry order values that are not.
C4_Witness ==
    /\ last.act = "orderStack" /\ last.phase = "commit"
    /\ Contiguous(OrderOf(stacks, last.boardId))
    /\ \E b \in StoreBoards : b # last.boardId /\ ~Contiguous(OrderOf(stacks, b))

\* C5: the collection holds at most one record per id, and exactly the ids
\* that were added and not deleted afterwards.
C5_UpsertUniqueness ==
    /\ \A i, j \in 1..Len(stacks) : stacks[i].id = stacks[j].id => i = j
    /\ {stacks[i].id : i \in 1..Len(stacks)} = live

\* An id that was in the collection has been added again.
C5_Witness ==
    /\ last.act = "addStack" /\ last.phase = "commit" /\ last.existing
    /\ Len(stacks) >= 2

\* C10: addStack merges the payload over the record with its id, in place:
\* each field has the payload's value if the payload carries it and the old
\* record's value otherwise; without such a record the payload is appended;
\* every other record keeps its value and position; adding the same payload
\* again changes nothing.
C10_AddStackShallowMerge ==
    \A p \in StorePayloads :
        LET t == addStack(stacks, p)
        IN  /\ IF \E i \in 1..Len(stacks) : stacks[i].id = p.id
               THEN /\ Len(t) = Len(stacks)
                    /\ \A i \in 1..Len(stacks) :
                          IF stacks[i].id = p.id
                          THEN /\ DOMAIN t[i] = (DOMAIN stacks[i]) \cup (DOMAIN p)
                               /\ \A f \in DOMAIN t[i] :
                                     t[i][f] = IF f \in DOMAIN p THEN p[f] ELSE stacks[i][f]
                          ELSE t[i] = stacks[i]
               ELSE /\ Len(t) = Len(stacks) + 1
                    /\ t[Len(t)] = p
                    /\ SubSeq(t, 1, Len(stacks)) = stacks
            /\ addStack(t, p) = t

\* An addStack has merged a payload without title into a record that has one.
C10_Witness ==
    /\ last.act = "addStack" /\ last.phase = "commit" /\ last.existing
    /\ last.kept = {"title"}
    /\ \E i \in 1..Len(stacks) : "title" \in DOMAIN stacks[i]

(***************************************************************************)
(* The root store (lines 160-167 and 203-275).  currentBoard holds a board *)
(* object or null; currentSlot is the position in boards of that very      *)
(* object, 0 when the object is not an element of the list: a label        *)
(* mutation through currentBoard shows in the list exactly when it is.     *)
(***************************************************************************)
Root == [boards |-> boards, currentBoard |-> currentBoard, currentSlot |-> currentSlot]

\* mutations.addBoard: Vue.set puts the payload object in the place of the old one.
addBoard(st, board) ==
    LET indexExisting == findIndex(st.boards, board.id)
    IN  IF indexExisting # 0
        THEN [st EXCEPT !.boards[indexExisting] = board,
                        !.currentSlot = IF @ = indexExisting THEN 0 ELSE @]
        ELSE [st EXCEPT !.boards = Append(@, board)]

\* mutations.removeBoard: a new list of the boards with another id.
removeBoard(st, board) ==
    LET Kept(k) == st.boards[k].id # board.id
        keep == SelectSeq([k \in 1..Len(st.boards) |-> k], Kept)
    IN  [st EXCEPT !.boards = [k \in 1..Len(keep) |-> st.boards[keep[k]]],
                   !.currentSlot = IF \E k \in 1..Len(keep) : keep[k] = @
                                   THEN CHOOSE k \in 1..Len(keep) : keep[k] = @
                                   ELSE 0]

\* mutations.setBoards: the payload list, made of objects of its own.
setBoards(st, newBoards) == [st EXCEPT !.boards = newBoards, !.currentSlot = 0]

\* mutations.setCurrentBoard with the object at position slot of the list, or
\* with null (slot 0).
setCurrentBoard(st, slot) ==
    [st EXCEPT !.currentBoard = IF slot = 0 THEN Null ELSE st.boards[slot],
               !.currentSlot = slot]

\* The label list of the current board object becomes labels.
SetLabels(st, labels) ==
    IF st.currentSlot = 0
    THEN [st EXCEPT !.currentBoard.labels = labels]
    ELSE [st EXCEPT !.currentBoard.labels = labels,
                    !.boards[st.currentSlot].labels = labels]

\* mutations.removeLabelFromCurrentBoard; currentBoard is not null.
removeLabelFromCurrentBoard(st, labelId) ==
    LET removeIndex == findIndex(st.currentBoard.labels, labelId)
    IN  IF removeIndex # 0
        THEN SetLabels(st, RemoveAt(st.currentBoard.labels, removeIndex))
        ELSE st

\* mutations.updateLabelFromCurrentBoard; currentBoard is not null and has a
\* label of that id.
updateLabelFromCurrentBoard(st, newLabel) ==
    LET i == findIndex(st.currentBoard.labels, newLabel.id)
    IN  SetLabels(st, [st.currentBoard.labels EXCEPT
                          ![i] = ObjectAssign(@, [title |-> newLabel.title,
                                                  color |-> newLabel.color])])

\* mutations.addLabelToCurrentBoard; currentBoard is not null.
addLabelToCurrentBoard(st, newLabel) ==
    SetLabels(st, Append(st.currentBoard.labels, newLabel))

\* The root state becomes st.
RootBecomes(st) ==
    /\ boards' = st.boards
    /\ currentBoard' = st.currentBoard
    /\ currentSlot' = st.currentSlot

(***************************************************************************)
(* store/card.js is not part of the sources at hand: addCard is modelled   *)
(* from the description of the card collection as an upsert keyed by id.   *)
(***************************************************************************)
addCard(s, card) ==
    LET existingIndex == findIndex(s, card.id)
    IN  IF existingIndex # 0
        THEN [s EXCEPT ![existingIndex] = ObjectAssign(@, card)]
        ELSE Append(s, card)

(***************************************************************************)
(* Dispatching an action whose handler issues one remote call.  A call in  *)
(* flight records the operation, what was sent, and whether the handler    *)
(* hands the promise of the call back to its caller (an async function     *)
(* that awaits it) or returns undefined.                                   *)
(***************************************************************************)
Remote(op, arg, awaited) ==
    /\ NumCalls < MaxCalls
    /\ calls' = calls (+) SetToBag({[op |-> op, arg |-> arg, awaited |-> awaited]})
    /\ last' = [act |-> op, phase |-> "dispatch", log |-> <<Call(op)>>,
                out |-> IF awaited THEN "promise" ELSE "undefined"]
    /\ UNCHANGED <<store, live>>

\* The handler throws before it calls anything.
Thrown(op) ==
    /\ last' = [act |-> op, phase |-> "thrown", log |-> <<Effect("throw")>>]
    /\ UNCHANGED <<store, calls, live>>

\* What the then-handler of call c leaves behind; the promise the caller holds
\* settles with the handler only when the action returned it.
Settled(c, log) ==
    /\ calls' = RemoveCall(c)
    /\ last' = [act |-> c.op, phase |-> "then", log |-> log,
                caller |-> IF c.awaited
                           THEN IF Effect("throw") \in {log[k] : k \in 1..Len(log)}
                                THEN "rejected" ELSE "fulfilled"
                           ELSE "fulfilled"]

\* The remote call rejects.  No action of this layer registers a rejection
\* handler: an awaited call rejects the promise of the action, a call that was
\* not returned leaves a rejection nobody handles.
Rejected(c) ==
    /\ c \in Pending
    /\ c.op # "reorderStack"
    /\ calls' = RemoveCall(c)
    /\ last' = [act |-> c.op, phase |-> "rejected", log |-> <<>>,
                caller |-> IF c.awaited THEN "rejected" ELSE "fulfilled"]
    /\ UNCHANGED <<store, live>>

\* The calls of operation op in flight.
PendingOf(op) == {c \in Pending : c.op = op}

(***************************************************************************)
(* The remaining actions of the stack module (lines 78-109).  The remote   *)
(* client (services/StackApi) is not part of the sources at hand: what a   *)
(* call resolves with is an input of the then-handler.                     *)
(***************************************************************************)

\* A commit in last.log, with the id and the fields of its payload.
CommitOf(m, payload) ==
    [e |-> "commit", m |-> m, id |-> payload.id, fields |-> DOMAIN payload]

\* stack.cards as the loops of lines 81-84 see it: nothing to visit when absent.
EmbeddedCards(stack) == IF "cards" \in DOMAIN stack THEN stack.cards ELSE <<>>

\* A load that commits the stack as it arrived.
KeepCards(stack) == stack

\* delete stack.cards
WithoutCards(stack) == [f \in (DOMAIN stack) \ {"cards"} |-> stack[f]]

\* The inner loop of lines 83-85.
RECURSIVE IngestCards(_, _)
IngestCards(cs, embedded) ==
    IF embedded = <<>> THEN cs
    ELSE IngestCards(addCard(cs, Head(embedded)), Tail(embedded))

\* A load that commits each stack before its cards.
RECURSIVE IngestStackFirst(_, _)
IngestStackFirst(acc, response) ==
    IF response = <<>> THEN acc
    ELSE LET stack == Head(response)
             embedded == EmbeddedCards(stack)
         IN  IngestStackFirst(
                 [stacks |-> addStack(acc.stacks, WithoutCards(stack)),
                  cards |-> IngestCards(acc.cards, embedded),
                  log |-> acc.log \o <<CommitOf("addStack", WithoutCards(stack))>>
                          \o [k \in 1..Len(embedded) |-> CommitOf("addCard", embedded[k])]],
                 Tail(response))

\* The then-handler of lines 80-89 from the collections and log in acc: for each
\* stack in index order its cards are committed, then the stack without them.
RECURSIVE Ingest(_, _)
Ingest(acc, response) ==
    IF response = <<>> THEN acc
    ELSE LET stack == Head(response)
             embedded == EmbeddedCards(stack)
         IN  Ingest(
                 [stacks |-> addStack(acc.stacks, WithoutCards(stack)),
                  cards |-> IngestCards(acc.cards, embedded),
                  log |-> acc.log
                          \o [k \in 1..Len(embedded) |-> CommitOf("addCard", embedded[k])]
                          \o <<CommitOf("addStack", WithoutCards(stack))>>],
                 Tail(response))

loadStacksAction(board) == Remote("loadStacks", board.id, FALSE)

loadStacksThen(c, response) ==
    /\ c \in Pending /\ c.op = "loadStacks"
    /\ \E done \in {Ingest([stacks |-> stacks, cards |-> cards, log |-> <<>>], response)} :
          /\ stacks' = done.stacks
          /\ cards' = done.cards
          /\ calls' = RemoveCall(c)
          /\ last' = [act |-> "loadStacks", phase |-> "then", log |-> done.log,
                      caller |-> "fulfilled", response |-> response]
    /\ live' = live \cup {response[k].id : k \in 1..Len(response)}
    /\ UNCHANGED <<boards, currentBoard, currentSlot, boardFilter>>

\* Line 92 reads the id of the current board before anything is called.
createStackAction(stack) ==
    IF currentBoard = Null
    THEN Thrown("createStack")
    ELSE Remote("createStack", ObjectAssign(stack, [boardId |-> currentBoard.id]), FALSE)

createStackThen(c, createdStack) ==
    /\ c \in Pending /\ c.op = "createStack"
    /\ stacks' = addStack(stacks, createdStack)
    /\ live' = live \cup {createdStack.id}
    /\ Settled(c, <<CommitOf("addStack", createdStack)>>)
    /\ UNCHANGED <<cards, boards, currentBoard, currentSlot, boardFilter>>

deleteStackAction(stack) == Remote("deleteStack", stack.id, FALSE)

\* The then-handler of lines 100-102 commits what the call resolved with.  With
\* nothing to resolve with, the mutation reads the id of undefined as soon as
\* findIndex visits a first stack.
deleteStackThen(c, response) ==
    /\ c \in Pending /\ c.op = "deleteStack"
    /\ IF response = Null
       THEN /\ UNCHANGED <<stacks, live>>
            /\ Settled(c, IF stacks = <<>> THEN <<Commit("deleteStack")>>
                          ELSE <<Commit("deleteStack"), Effect("throw")>>)
       ELSE /\ stacks' = deleteStack(stacks, response)
            /\ live' = live \ {response.id}
            /\ Settled(c, <<CommitOf("deleteStack", response)>>)
    /\ UNCHANGED <<cards, boards, currentBoard, currentSlot, boardFilter>>

updateStackAction(stack) == Remote("updateStack", stack.id, FALSE)

updateStackThen(c, response) ==
    /\ c \in Pending /\ c.op = "updateStack"
    /\ stacks' = updateStack(stacks, response)
    /\ Settled(c, <<CommitOf("updateStack", response)>>)
    /\ UNCHANGED <<cards, boards, currentBoard, currentSlot, boardFilter, live>>

(***************************************************************************)
(* The actions of the root store (lines 282-313 and 333-356).  BoardApi    *)
(* resolves with the data of the response and rejects with the error.      *)
(***************************************************************************)

\* Lines 283-284: a deep copy of the board, archived.
archiveBoardAction(board) ==
    Remote("archiveBoard", [board EXCEPT !.archived = TRUE], FALSE)

archiveBoardThen(c, board) ==
    /\ c \in Pending /\ c.op = "archiveBoard"
    /\ RootBecomes(addBoard(Root, board))
    /\ Settled(c, <<CommitOf("addBoard", board)>>)
    /\ UNCHANGED <<stacks, cards, boardFilter, live>>

\* An async function: its promise is the one the caller holds.
updateBoardAction(board) == Remote("updateBoard", board, TRUE)

updateBoardThen(c, storedBoard) ==
    /\ c \in Pending /\ c.op = "updateBoard"
    /\ RootBecomes(addBoard(Root, storedBoard))
    /\ Settled(c, <<CommitOf("addBoard", storedBoard)>>)
    /\ UNCHANGED <<stacks, cards, boardFilter, live>>

\* A create that shows the board before the remote call has answered.
createBoardOptimistic(boardData) ==
    /\ NumCalls < MaxCalls
    /\ calls' = calls (+) SetToBag({[op |-> "createBoard", arg |-> boardData,
                                     awaited |-> FALSE]})
    /\ boards' = Append(boards, boardData)
    /\ last' = [act |-> "createBoard", phase |-> "dispatch",
                log |-> <<Commit("addBoard"), Call("createBoard")>>,
                out |-> "undefined"]
    /\ UNCHANGED <<stacks, cards, currentBoard, currentSlot, boardFilter, live>>

createBoardAction(boardData) == Remote("createBoard", boardData, FALSE)

createBoardThen(c, board) ==
    /\ c \in Pending /\ c.op = "createBoard"
    /\ RootBecomes(addBoard(Root, board))
    /\ Settled(c, <<CommitOf("addBoard", board)>>)
    /\ UNCHANGED <<stacks, cards, boardFilter, live>>

\* Lines 307-309: the commit is all the handler does; nothing is called.
removeBoardAction(board) ==
    /\ RootBecomes(removeBoard(Root, board))
    /\ last' = [act |-> "removeBoard", phase |-> "dispatch",
                log |-> <<CommitOf("removeBoard", board)>>, out |-> "undefined"]
    /\ UNCHANGED <<stacks, cards, boardFilter, calls, live>>

\* An async function, like updateBoard.
loadBoardsAction == Remote("loadBoards", Null, TRUE)

loadBoardsThen(c, newBoards) ==
    /\ c \in Pending /\ c.op = "loadBoards"
    /\ RootBecomes(setBoards(Root, newBoards))
    /\ Settled(c, <<Commit("setBoards")>>)
    /\ UNCHANGED <<stacks, cards, boardFilter, live>>

\* Lines 333-335, with the board at position slot of the list or null (slot 0).
setCurrentBoardAction(slot) ==
    /\ RootBecomes(setCurrentBoard(Root, slot))
    /\ last' = [act |-> "setCurrentBoard", phase |-> "dispatch",
                log |-> <<Commit("setCurrentBoard")>>, out |-> "undefined"]
    /\ UNCHANGED <<stacks, cards, boardFilter, calls, live>>

removeLabelFromCurrentBoardAction(label) ==
    Remote("removeLabelFromCurrentBoard", label, FALSE)

\* The mutation reads currentBoard.labels: it throws when no board is current.
removeLabelFromCurrentBoardThen(c, label) ==
    /\ c \in Pending /\ c.op = "removeLabelFromCurrentBoard"
    /\ IF currentBoard = Null
       THEN /\ UNCHANGED <<boards, currentBoard, currentSlot>>
            /\ Settled(c, <<CommitOf("removeLabelFromCurrentBoard", label), Effect("throw")>>)
       ELSE /\ RootBecomes(removeLabelFromCurrentBoard(Root, label.id))
            /\ Settled(c, <<CommitOf("removeLabelFromCurrentBoard", label)>>)
    /\ UNCHANGED <<stacks, cards, boardFilter, live>>

updateLabelFromCurrentBoardAction(newLabel) ==
    Remote("updateLabelFromCurrentBoard", newLabel, FALSE)

\* Line 268 reads through the result of find: it throws when the current board
\* has no label of that id, and line 264 when no board is current.
updateLabelFromCurrentBoardThen(c, newLabel) ==
    /\ c \in Pending /\ c.op = "updateLabelFromCurrentBoard"
    /\ IF currentBoard = Null \/ findIndex(currentBoard.labels, newLabel.id) = 0
       THEN /\ UNCHANGED <<boards, currentBoard, currentSlot>>
            /\ Settled(c, <<CommitOf("updateLabelFromCurrentBoard", newLabel), Effect("throw")>>)
       ELSE /\ RootBecomes(updateLabelFromCurrentBoard(Root, newLabel))
            /\ Settled(c, <<CommitOf("updateLabelFromCurrentBoard", newLabel)>>)
    /\ UNCHANGED <<stacks, cards, boardFilter, live>>

\* Line 351 reads the id of the current board before anything is called.
addLabelToCurrentBoardAction(newLabel) ==
    IF currentBoard = Null
    THEN Thrown("addLabelToCurrentBoard")
    ELSE Remote("addLabelToCurrentBoard",
                ObjectAssign(newLabel, [boardId |-> currentBoard.id]), FALSE)

addLabelToCurrentBoardThen(c, newLabel) ==
    /\ c \in Pending /\ c.op = "addLabelToCurrentBoard"
    /\ IF currentBoard = Null
       THEN /\ UNCHANGED <<boards, currentBoard, currentSlot>>
            /\ Settled(c, <<CommitOf("addLabelToCurrentBoard", newLabel), Effect("throw")>>)
       ELSE /\ RootBecomes(addLabelToCurrentBoard(Root, newLabel))
            /\ Settled(c, <<CommitOf("addLabelToCurrentBoard", newLabel)>>)
    /\ UNCHANGED <<stacks, cards, boardFilter, live>>

(***************************************************************************)
(* Every action but the reorder, from the store as constructed.  The       *)
(* server knows one board, one stack with one card, and labels of one id   *)
(* in two versions; it echoes what an update sent, and gives a new label   *)
(* an id the current board does not show yet.                              *)
(***************************************************************************)
ServerBoardLists == {<<Board(1)>>}

ServerBoards == {Board(1)}

ServerStack == [id |-> 1, boardId |-> 1, order |-> 0]

ServerStackLists == {<<>>, <<ObjectAssign(ServerStack, [cards |-> <<[id |-> 10, stackId |-> 1]>>])>>}

LabelIds == {1}

LabelData == {[title |-> "x", color |-> "red"], [title |-> "y", color |-> "blue"]}

ElementsOf(s) == {s[k] : k \in 1..Len(s)}

CurrentLabels == IF currentBoard = Null THEN {} ELSE ElementsOf(currentBoard.labels)

InitActions == InitStore

NextActions ==
    \/ currentBoard # Null /\ loadStacksAction(currentBoard)
    \/ \E c \in PendingOf("loadStacks") : \E response \in ServerStackLists : loadStacksThen(c, response)
    \/ createStackAction([title |-> "a"])
    \/ \E c \in PendingOf("createStack") : createStackThen(c, ServerStack)
    \/ \E stack \in ElementsOf(stacks) : deleteStackAction(stack)
    \/ \E c \in PendingOf("deleteStack") : \E response \in {Null, ServerStack} : deleteStackThen(c, response)
    \/ \E stack \in ElementsOf(stacks) : updateStackAction(stack)
    \/ \E c \in PendingOf("updateStack") : updateStackThen(c, ObjectAssign(ServerStack, [title |-> "a"]))
    \/ \E board \in ElementsOf(boards) : archiveBoardAction(board)
    \/ \E c \in PendingOf("archiveBoard") : archiveBoardThen(c, c.arg)
    \/ \E board \in ElementsOf(boards) : updateBoardAction([board EXCEPT !.archived = FALSE])
    \/ \E c \in PendingOf("updateBoard") : updateBoardThen(c, c.arg)
    \/ createBoardAction([title |-> "b"])
    \/ \E c \in PendingOf("createBoard") : \E board \in ServerBoards : createBoardThen(c, board)
    \/ \E board \in ElementsOf(boards) : removeBoardAction(board)
    \/ loadBoardsAction
    \/ \E c \in PendingOf("loadBoards") : \E newBoards \in ServerBoardLists : loadBoardsThen(c, newBoards)
    \/ \E slot \in 0..Len(boards) : setCurrentBoardAction(slot)
    \/ \E label \in CurrentLabels : removeLabelFromCurrentBoardAction(label)
    \/ \E c \in PendingOf("removeLabelFromCurrentBoard") : removeLabelFromCurrentBoardThen(c, c.arg)
    \/ \E label \in CurrentLabels : \E data \in LabelData :
          updateLabelFromCurrentBoardAction(ObjectAssign(label, data))
    \/ \E c \in PendingOf("updateLabelFromCurrentBoard") : updateLabelFromCurrentBoardThen(c, c.arg)
    \/ \E data \in LabelData : addLabelToCurrentBoardAction(data)
    \/ \E c \in PendingOf("addLabelToCurrentBoard") : \E id \in LabelIds \ {l.id : l \in CurrentLabels} :
          addLabelToCurrentBoardThen(c, ObjectAssign(c.arg, [id |-> id]))
    \/ \E c \in Pending : Rejected(c)

SpecActions == InitActions /\ [][NextActions]_vars

(***************************************************************************)
(* The stack module without the reorder, on the board on display, with a   *)
(* server that answers a load with up to MaxLoad of its stack records:     *)
(* two stacks, with and without embedded cards, one card in both stacks.   *)
(* A created or updated stack comes back as one of these records.          *)
(***************************************************************************)
Card(id, stackId) == [id |-> id, stackId |-> stackId]

LoadStacks ==
    {[id |-> 1, boardId |-> 1, order |-> 0, cards |-> <<Card(10, 1), Card(11, 1)>>],
     [id |-> 2, boardId |-> 1, order |-> 1, cards |-> <<Card(11, 2)>>],
     [id |-> 2, boardId |-> 1, order |-> 1, cards |-> <<>>],
     [id |-> 1, boardId |-> 1, order |-> 0]}

LoadResponses == UNION {[1..n -> LoadStacks] : n \in 0..MaxLoad}

InitLoad ==
    /\ stacks = <<>>
    /\ cards = <<>>
    /\ boards = <<Board(1)>>
    /\ currentBoard = Board(1)
    /\ currentSlot = 1
    /\ boardFilter = ""
    /\ calls = EmptyBag
    /\ last = [act |-> "init", phase |-> "init", log |-> <<>>]
    /\ live = {}

NextLoad ==
    \/ loadStacksAction(currentBoard)
    \/ \E c \in PendingOf("loadStacks") : \E response \in LoadResponses : loadStacksThen(c, response)
    \/ createStackAction([title |-> "a"])
    \/ \E c \in PendingOf("createStack") : \E createdStack \in LoadStacks : createStackThen(c, createdStack)
    \/ \E stack \in ElementsOf(stacks) : deleteStackAction(stack)
    \/ \E c \in PendingOf("deleteStack") : \E response \in {Null} \cup {s \in LoadStacks : s.id = c.arg} :
          deleteStackThen(c, response)
    \/ \E stack \in ElementsOf(stacks) : updateStackAction(stack)
    \/ \E c \in PendingOf("updateStack") : \E response \in {s \in LoadStacks : s.id = c.arg} :
          updateStackThen(c, response)
    \/ \E c \in Pending : Rejected(c)

SpecLoad == InitLoad /\ [][NextLoad]_vars

(***************************************************************************)
(* Properties of the actions.                                              *)
(***************************************************************************)

\* The write actions other than the reorder.
WriteActions ==
    {"createStack", "updateStack", "deleteStack", "loadStacks",
     "createBoard", "updateBoard", "archiveBoard", "removeBoard", "loadBoards",
     "removeLabelFromCurrentBoard", "updateLabelFromCurrentBoard",
     "addLabelToCurrentBoard"}

\* The write actions other than the reorder that call the server.
RemoteActions == WriteActions \ {"removeBoard"}

\* The boards, stacks and label collections.
Collections == <<boards, stacks, IF currentBoard = Null THEN <<>> ELSE currentBoard.labels>>

\* C6: no write action other than the reorder changes the boards, stacks or
\* label collections before its remote call has resolved successfully: neither
\* the step that dispatches it nor the rejection of its call changes them.
C6_NoMutationBeforeConfirmation ==
    [][\A after \in {<<Collections', last'>>} :
          (after[2].act \in WriteActions /\ after[2].phase \in {"dispatch", "thrown", "rejected"})
          => after[1] = Collections]_vars

\* C7: when the remote call of a non-reorder action rejects, the store is as it
\* was before the action was dispatched: neither the dispatch of such an action
\* nor the rejection of its call changes boards, stacks, cards, currentBoard or
\* boardFilter.
C7_NoCompensationOnFailure ==
    [][\A after \in {<<store', last'>>} :
          (after[2].act \in RemoteActions /\ after[2].phase \in {"dispatch", "thrown", "rejected"})
          => after[1] = store]_vars

\* The call of an action has rejected on a store that holds a board and a stack.
C7_Witness ==
    /\ last.phase = "rejected" /\ last.act = "updateStack"
    /\ boards # <<>> /\ stacks # <<>>

\* C8: when the remote call of a non-reorder write action rejects, the promise
\* its caller holds is rejected.
C8_RejectionReachesCaller ==
    (last.phase = "rejected" /\ last.act \in RemoteActions) => last.caller = "rejected"

\* Position in the log of the last commit for the stack at position k of response.
LogEnd(response, k) ==
    LET Sum[j \in 0..k] == IF j = 0 THEN 0
                           ELSE Sum[j - 1] + Len(EmbeddedCards(response[j])) + 1
    IN  Sum[k]

\* C9: when loadStacks resolves, the handler commits, for each stack in sequence
\* order, every embedded card with addCard and then the stack with addStack, the
\* stack payload having no cards field; afterwards the card store holds every
\* embedded card id and the stack store every loaded stack id, and a loaded stack
\* has a cards field in the store only if its record had one before the load.
C9_NestedIngest ==
    [][\A after \in {<<stacks', cards', last'>>} :
        (after[3].act = "loadStacks" /\ after[3].phase = "then")
        => \A response \in {after[3].response} : \A log \in {after[3].log} :
             /\ Len(log) = LogEnd(response, Len(response))
             /\ \A k \in 1..Len(response) :
                  LET embedded == EmbeddedCards(response[k])
                      start == LogEnd(response, k - 1)
                  IN  /\ \A i \in 1..Len(embedded) :
                            /\ log[start + i].m = "addCard"
                            /\ log[start + i].id = embedded[i].id
                            /\ findIndex(after[2], embedded[i].id) # 0
                      /\ log[LogEnd(response, k)].m = "addStack"
                      /\ log[LogEnd(response, k)].id = response[k].id
                      /\ "cards" \notin log[LogEnd(response, k)].fields
                      /\ findIndex(after[1], response[k].id) # 0
                      /\ "cards" \in DOMAIN after[1][findIndex(after[1], response[k].id)]
                         => /\ findIndex(stacks, response[k].id) # 0
                            /\ "cards" \in DOMAIN stacks[findIndex(stacks, response[k].id)]
      ]_vars

\* A load has delivered two stacks that both embed cards, into a store that had
\* neither stack nor card of theirs.
C9_Witness ==
    /\ last.act = "loadStacks" /\ last.phase = "then"
    /\ Len(last.response) = 2
    /\ \A k \in 1..2 : EmbeddedCards(last.response[k]) # <<>>
    /\ last.response[1].id # last.response[2].id
    /\ Len(stacks) = 2 /\ \A k \in 1..2 : "cards" \notin DOMAIN stacks[k]
    /\ {cards[k].id : k \in 1..Len(cards)} = {10, 11}

(***************************************************************************)
(* Further properties of the stack collection under direct commits.        *)
(***************************************************************************)

\* C11: updateStack replaces in place: where a record has the payload's id, the
\* record at that position becomes exactly the payload (fields the payload lacks
\* are gone), and the length and every other record are as before; where no
\* record has that id the collection is unchanged.
C11_UpdateStackPositionalReplace ==
    \A p \in StorePayloads :
        LET t == updateStack(stacks, p)
        IN  IF \E i \in 1..Len(stacks) : stacks[i].id = p.id
            THEN /\ Len(t) = Len(stacks)
                 /\ \A i \in 1..Len(stacks) :
                       t[i] = IF stacks[i].id = p.id THEN p ELSE stacks[i]
            ELSE t = stacks

\* An updateStack has replaced a record of a collection of two, and one record
\* is without a title while the other has one.
C11_Witness ==
    /\ last.act = "updateStack" /\ last.phase = "commit" /\ last.existing
    /\ Len(stacks) = 2
    /\ \E i, j \in 1..2 : "title" \notin DOMAIN stacks[i] /\ "title" \in DOMAIN stacks[j]

(***************************************************************************)
(* Further properties of the stack module's actions.                       *)
(***************************************************************************)

\* C12: when the remote call of a deleteStack action resolves, the collection
\* afterwards has no record with the id the action was dispatched for, and every
\* record with another id is as it was.
C12_DeleteRemovesOnSuccess ==
    [][\A after \in {<<stacks', calls', last'>>} : \A c \in PendingOf("deleteStack") :
          (after[3].act = "deleteStack" /\ after[3].phase = "then" /\ after[2] = RemoveCall(c))
          => /\ findIndex(after[1], c.arg) = 0
             /\ \A i \in 1..Len(stacks) :
                   stacks[i].id # c.arg => stacks[i] \in ElementsOf(after[1])]_vars

(***************************************************************************)
(* Further properties of the reorder.                                      *)
(***************************************************************************)

\* The payload of an orderStack mutation on board b.
OrderPayload(b, removedIndex, addedIndex) ==
    [stack |-> [boardId |-> b], removedIndex |-> removedIndex, addedIndex |-> addedIndex]

\* C13: moving the element at r to a and then the element at a to r gives back
\* the sequence; and on a board whose order values are 0..n-1, an orderStack
\* with (r, a) followed by one with (a, r) leaves every order value as it was.
C13_ReorderRoundTrip ==
    \A b \in {1, 2} : \A r, a \in Indices(stacks, b) :
        \A S \in {Ids(stacksByBoard(stacks, b))} :
        \A twice \in {orderStack(orderStack(stacks, OrderPayload(b, r, a)),
                                 OrderPayload(b, a, r))} :
            /\ applyOrderToArray(applyOrderToArray(S, r, a), a, r) = S
            /\ Contiguous(OrderOf(stacks, b))
               => \A x \in {1, 2} : OrderOf(twice, x) = OrderOf(stacks, x)

\* A reorder has left the board on display, of three stacks or more, with order
\* values 0..n-1 that run against the order of the collection.
C13_Witness ==
    /\ last.act = "orderStack" /\ last.phase = "dispatch"
    /\ Len(stacksByBoard(stacks, 1)) >= 3
    /\ Contiguous(OrderOf(stacks, 1))
    /\ Ids(stacksByBoard(stacks, 1)) # Ids(SelectSeq(stacks, LAMBDA s : s.boardId = 1))

(***************************************************************************)
(* The board getters of the root store (lines 175-198) and its filter      *)
(* (lines 148-152).  helpers/boardToMenuItem is not part of the sources at *)
(* hand: the menu item of a board is modelled as a record of its own that  *)
(* carries the board's id.                                                 *)
(***************************************************************************)
BOARD_FILTERS == [ALL |-> "", ARCHIVED |-> "archived", SHARED |-> "shared"]

boardToMenuItem(board) == [id |-> board.id, menu |-> TRUE]

\* board.deletedAt is truthy: the field is there and not 0.
HasDeletedAt(board) == "deletedAt" \in DOMAIN board /\ board.deletedAt # 0

noneArchivedBoards(bs) ==
    SelectSeq(bs, LAMBDA board : board.archived = FALSE /\ ~HasDeletedAt(board))

archivedBoards(bs) ==
    SelectSeq(bs, LAMBDA board : board.archived = TRUE /\ ~HasDeletedAt(board))

sharedBoards(bs) ==
    SelectSeq(bs, LAMBDA board : board.shared # 0 /\ ~HasDeletedAt(board))

\* A filter that takes every truthy value of shared, as sharedBoards does.
filteredBoardsTruthy(bs, filter) ==
    LET kept == SelectSeq(bs, LAMBDA board :
                    \/ (filter = BOARD_FILTERS.ALL /\ board.archived = FALSE)
                    \/ (filter = BOARD_FILTERS.ARCHIVED /\ board.archived = TRUE)
                    \/ (filter = BOARD_FILTERS.SHARED /\ board.shared # 0))
    IN  [k \in 1..Len(kept) |-> boardToMenuItem(kept[k])]

filteredBoards(bs, filter) ==
    LET kept == SelectSeq(bs, LAMBDA board :
                    \/ (filter = BOARD_FILTERS.ALL /\ board.archived = FALSE)
                    \/ (filter = BOARD_FILTERS.ARCHIVED /\ board.archived = TRUE)
                    \/ (filter = BOARD_FILTERS.SHARED /\ board.shared = 1))
    IN  [k \in 1..Len(kept) |-> boardToMenuItem(kept[k])]

(***************************************************************************)
(* The board list and the filter under commits of addBoard, removeBoard    *)
(* and setBoardFilter, and under the setBoardFilter action.  A board is    *)
(* archived or not, has shared 0, 1 or 2, and may carry a deletion time.   *)
(***************************************************************************)
BoardPayloads ==
    {[id |-> i, archived |-> ar, shared |-> sh, labels |-> <<>>] :
        i \in StoreIds, ar \in BOOLEAN, sh \in 0..2}
    \cup
    {[id |-> i, archived |-> ar, shared |-> sh, labels |-> <<>>, deletedAt |-> 5] :
        i \in StoreIds, ar \in BOOLEAN, sh \in 0..2}

FilterValues == {BOARD_FILTERS.ALL, BOARD_FILTERS.ARCHIVED, BOARD_FILTERS.SHARED}

InitBoards == InitStore

\* commit('addBoard', board)
commitAddBoard(board) ==
    /\ RootBecomes(addBoard(Root, board))
    /\ last' = [act |-> "addBoard", phase |-> "commit", log |-> <<Commit("addBoard")>>]
    /\ UNCHANGED <<stacks, cards, boardFilter, calls, live>>

\* commit('removeBoard', board)
commitRemoveBoard(board) ==
    /\ RootBecomes(removeBoard(Root, board))
    /\ last' = [act |-> "removeBoard", phase |-> "commit", log |-> <<Commit("removeBoard")>>]
    /\ UNCHANGED <<stacks, cards, boardFilter, calls, live>>

\* mutations.setBoardFilter, committed directly.
commitSetBoardFilter(filter) ==
    /\ boardFilter' = filter
    /\ last' = [act |-> "setBoardFilter", phase |-> "commit",
                log |-> <<Commit("setBoardFilter")>>]
    /\ UNCHANGED <<stacks, cards, boards, currentBoard, currentSlot, calls, live>>

\* Lines 324-326.  The handler takes the property commmit of its context, which
\* has none of that name, and calls it: the call of undefined throws.
setBoardFilterAction(filter) ==
    /\ last' = [act |-> "setBoardFilter", phase |-> "thrown",
                log |-> <<Effect("throw")>>, filter |-> filter]
    /\ UNCHANGED <<store, calls, live>>

NextBoards ==
    \/ \E board \in BoardPayloads : commitAddBoard(board)
    \/ \E board \in ElementsOf(boards) : commitRemoveBoard(board)
    \/ \E filter \in FilterValues \cup {"other"} : commitSetBoardFilter(filter)
    \/ \E filter \in FilterValues : setBoardFilterAction(filter)

SpecBoards == InitBoards /\ [][NextBoards]_vars

\* The boards a filter value asks for.
Asked(board, filter) ==
    CASE filter = BOARD_FILTERS.ALL -> board.archived = FALSE
      [] filter = BOARD_FILTERS.ARCHIVED -> board.archived = TRUE
      [] filter = BOARD_FILTERS.SHARED -> board.shared = 1

\* The positions of a list of boards that a filter value asks for.
AskedAt(bs, filter) == {k \in 1..Len(bs) : Asked(bs[k], filter)}

\* C14: for each of the three filter values filteredBoards is the menu items of
\* the boards the filter asks for (not archived, archived, shared equal to 1), one
\* per such board and in the order of the list; when no board carries a deletion
\* time it selects under ARCHIVED the boards of archivedBoards and under ALL the
\* boards of noneArchivedBoards.
C14_FilterSemantics ==
    /\ \A filter \in FilterValues : \A items \in {filteredBoards(boards, filter)} :
          /\ Len(items) = Cardinality(AskedAt(boards, filter))
          /\ \A k \in AskedAt(boards, filter) :
                items[Cardinality({j \in AskedAt(boards, filter) : j <= k})]
                    = boardToMenuItem(boards[k])
    /\ (\A k \in 1..Len(boards) : ~HasDeletedAt(boards[k]))
       => /\ Ids(filteredBoards(boards, BOARD_FILTERS.ARCHIVED)) = Ids(archivedBoards(boards))
          /\ Ids(filteredBoards(boards, BOARD_FILTERS.ALL)) = Ids(noneArchivedBoards(boards))

\* The filter is SHARED over two boards, the first with shared 2 and the second
\* with shared 1, neither deleted.
C14_Witness ==
    /\ boardFilter = BOARD_FILTERS.SHARED
    /\ Len(boards) = 2 /\ boards[1].shared = 2 /\ boards[2].shared = 1
    /\ \A k \in 1..2 : ~HasDeletedAt(boards[k])
    /\ Len(filteredBoards(boards, boardFilter)) = 1

\* C15: the filter is ALL in the initial state, and a dispatch of setBoardFilter
\* with one of the three filter values leaves boardFilter equal to that value
\* and the rest of the store as it was.
C15_FilterStateMachine ==
    [][\A after \in {<<store', last'>>} :
          (after[2].act = "setBoardFilter" /\ after[2].phase \in {"dispatch", "thrown"})
          => after[1] = <<stacks, cards, boards, currentBoard, currentSlot, after[2].filter>>
      ]_vars

(***************************************************************************)
(* The label mutations (lines 253-274) under direct commits, on boards     *)
(* that arrive with addBoard and become current with setCurrentBoard.  A   *)
(* label has one of two ids and one of two versions of title and color; a  *)
(* label is added under an id the current board does not show yet.         *)
(***************************************************************************)
Label(id, version) ==
    [id |-> id,
     title |-> IF version = 1 THEN "x" ELSE "y",
     color |-> IF version = 1 THEN "red" ELSE "blue"]

LabelPayloads == {Label(id, version) : id \in {1, 2}, version \in {1, 2}}

LabelBoards ==
    {[id |-> i, archived |-> FALSE, shared |-> 0, labels |-> ls] :
        i \in {1, 2}, ls \in {<<>>, <<Label(1, 1)>>}}

InitLabels == InitStore

\* The commit of a label mutation has thrown: nothing is written.
LabelCommitThrows(m, label) ==
    /\ last' = [act |-> m, phase |-> "commit", log |-> <<Commit(m), Effect("throw")>>,
                label |-> label]
    /\ UNCHANGED <<store, calls, live>>

\* The commit of a label mutation has left the root state st.
LabelCommitted(m, label, st) ==
    /\ RootBecomes(st)
    /\ last' = [act |-> m, phase |-> "commit", log |-> <<Commit(m)>>, label |-> label]
    /\ UNCHANGED <<stacks, cards, boardFilter, calls, live>>

\* commit('setCurrentBoard', board) with the board at position slot, or null.
commitSetCurrentBoard(slot) ==
    /\ RootBecomes(setCurrentBoard(Root, slot))
    /\ last' = [act |-> "setCurrentBoard", phase |-> "commit",
                log |-> <<Commit("setCurrentBoard")>>]
    /\ UNCHANGED <<stacks, cards, boardFilter, calls, live>>

\* commit('addLabelToCurrentBoard', newLabel)
commitAddLabel(newLabel) ==
    IF currentBoard = Null
    THEN LabelCommitThrows("addLabelToCurrentBoard", newLabel)
    ELSE LabelCommitted("addLabelToCurrentBoard", newLabel,
                        addLabelToCurrentBoard(Root, newLabel))

\* commit('removeLabelFromCurrentBoard', label.id)
commitRemoveLabel(label) ==
    IF currentBoard = Null
    THEN LabelCommitThrows("removeLabelFromCurrentBoard", label)
    ELSE LabelCommitted("removeLabelFromCurrentBoard", label,
                        removeLabelFromCurrentBoard(Root, label.id))

\* An update that does nothing, and does not fail, when the current board has no
\* label of that id.
commitUpdateLabelSilent(newLabel) ==
    IF currentBoard = Null
    THEN LabelCommitThrows("updateLabelFromCurrentBoard", newLabel)
    ELSE LabelCommitted("updateLabelFromCurrentBoard", newLabel,
                        IF findIndex(currentBoard.labels, newLabel.id) = 0 THEN Root
                        ELSE updateLabelFromCurrentBoard(Root, newLabel))

\* commit('updateLabelFromCurrentBoard', newLabel): line 268 reads through the
\* result of find.
commitUpdateLabel(newLabel) ==
    IF currentBoard = Null \/ findIndex(currentBoard.labels, newLabel.id) = 0
    THEN LabelCommitThrows("updateLabelFromCurrentBoard", newLabel)
    ELSE LabelCommitted("updateLabelFromCurrentBoard", newLabel,
                        updateLabelFromCurrentBoard(Root, newLabel))

NextLabels ==
    \/ \E board \in LabelBoards : commitAddBoard(board)
    \/ \E slot \in 0..Len(boards) : commitSetCurrentBoard(slot)
    \/ \E newLabel \in LabelPayloads :
          /\ newLabel.id \notin {l.id : l \in CurrentLabels}
          /\ commitAddLabel(newLabel)
    \/ \E label \in LabelPayloads : commitRemoveLabel(label)
    \/ \E newLabel \in LabelPayloads : commitUpdateLabel(newLabel)

SpecLabels == InitLabels /\ [][NextLabels]_vars

\* The three label mutations.
LabelMutations ==
    {"addLabelToCurrentBoard", "removeLabelFromCurrentBoard", "updateLabelFromCurrentBoard"}

\* C16: on a current board, addLabelToCurrentBoard appends the label at the end
\* of its labels; removeLabelFromCurrentBoard removes the label of the given id
\* and changes nothing, without failing, when there is none; updateLabelFromCurrentBoard
\* overwrites title and color of the label of the given id where it stands, and
\* fails leaving the labels unchanged when there is none.  The boards at other
\* positions of the list are unchanged, and the current board stays the same
\* object under the same id.
C16_LabelMutations ==
    [][\A after \in {<<boards', currentBoard', currentSlot', last'>>} :
        (after[4].phase = "commit" /\ after[4].act \in LabelMutations /\ currentBoard # Null)
        => \A l \in {after[4].label} : \A old \in {currentBoard.labels} :
           \A new \in {after[2].labels} :
           \A threw \in {Effect("throw") \in ElementsOf(after[4].log)} :
           \A has \in {\E i \in 1..Len(old) : old[i].id = l.id} :
             /\ after[4].act = "addLabelToCurrentBoard"
                => ~threw /\ new = Append(old, l)
             /\ after[4].act = "removeLabelFromCurrentBoard"
                => /\ ~threw
                   /\ new = IF has THEN RemoveAt(old, findIndex(old, l.id)) ELSE old
                   /\ \A i \in 1..Len(new) : new[i].id # l.id
             /\ after[4].act = "updateLabelFromCurrentBoard"
                => IF has
                   THEN /\ ~threw
                        /\ Len(new) = Len(old)
                        /\ \A i \in 1..Len(old) :
                              new[i] = IF old[i].id = l.id
                                       THEN [old[i] EXCEPT !.title = l.title, !.color = l.color]
                                       ELSE old[i]
                   ELSE threw /\ new = old
             /\ Len(after[1]) = Len(boards)
             /\ \A k \in 1..Len(boards) : k # currentSlot => after[1][k] = boards[k]
             /\ currentSlot # 0 => after[1][currentSlot] = after[2]
             /\ after[3] = currentSlot
             /\ after[2].id = currentBoard.id
      ]_vars

\* An update for an id the current board does not show has failed, on a current
\* board that shows a label and stands in a list beside another board with one.
C16_Witness ==
    /\ last.act = "updateLabelFromCurrentBoard" /\ last.phase = "commit"
    /\ Effect("throw") \in ElementsOf(last.log)
    /\ currentBoard # Null /\ currentSlot # 0
    /\ Len(currentBoard.labels) = 1
    /\ \E k \in 1..Len(boards) : k # currentSlot /\ boards[k].labels # <<>>

\* C17: whenever the remote reorderStack call rejects, with or without a
\* response, the failure handler of the orderStack action commits its
\* compensating orderStack.
C17_RollbackOnEveryFailure ==
    (last.act = "orderStack" /\ last.phase = "catch")
    => Commit("orderStack") \in ElementsOf(last.log)

(***************************************************************************)
(* Overlapping reorders.  The board on display shows three stacks in the   *)
(* order they were loaded in.  From that order the user drags up to        *)
(* MaxOverlap times in a row, before any of the remote calls has come      *)
(* back; the calls then resolve or reject in any order.                    *)
(***************************************************************************)
LoadedStacks ==
    <<[id |-> 1, boardId |-> 1, order |-> 0],
      [id |-> 2, boardId |-> 1, order |-> 1],
      [id |-> 3, boardId |-> 1, order |-> 2]>>

InitOverlap ==
    /\ stacks = LoadedStacks
    /\ cards = <<>>
    /\ boards = <<Board(1)>>
    /\ currentBoard = Board(1)
    /\ currentSlot = 1
    /\ boardFilter = ""
    /\ calls = EmptyBag
    /\ last = [act |-> "init", phase |-> "init", log |-> <<>>]
    /\ live = {1, 2, 3}

NextOverlap ==
    \/ \E removedIndex, addedIndex \in Indices(stacks, currentBoard.id) :
            /\ \/ NumCalls = 0 /\ stacks = LoadedStacks
               \/ NumCalls > 0 /\ NumCalls < MaxOverlap /\ last.phase = "dispatch"
            /\ orderStackAction(stacksByBoard(stacks, currentBoard.id)[removedIndex + 1],
                                removedIndex, addedIndex)
    \/ \E c \in Pending : orderStackResolved(c)
    \/ \E c \in Pending : \E hasResponse \in BOOLEAN : orderStackCatch(c, hasResponse)

SpecOverlap == InitOverlap /\ [][NextOverlap]_vars

\* The orders of display a single move makes of the loaded order (the loaded
\* order itself among them).
OneMoveFromLoaded ==
    {Ids(stacksByBoard(orderStack(LoadedStacks, OrderPayload(1, r, a)), 1)) :
        r \in Indices(LoadedStacks, 1), a \in Indices(LoadedStacks, 1)}

C19_LabelsVisibleInEntry ==
    currentBoard # Null
    => \A k \in 1..Len(boards) :
          boards[k].id = currentBoard.id => boards[k].labels = currentBoard.labels

(***************************************************************************)
(* The frame of a reorder.  Two boards hold stacks, some of them with a    *)
(* title; reorders are dispatched on the board on display, their calls     *)
(* resolve or reject in any order, and the orderStack mutation is also     *)
(* committed on its own, on the board that is not on display.              *)
(***************************************************************************)
\* The order values the stacks were loaded with: not 0..n-1, and with ties.
FrameOrders == {[i \in StackIdsOrder |-> 3 * (i % 2)]}

InitFrame ==
    /\ \E o \in FrameOrders :
            stacks = [i \in StackIdsOrder |->
                        IF i % 2 = 1
                        THEN [id |-> i, boardId |-> BoardOfOrder(i), order |-> o[i],
                              title |-> "a"]
                        ELSE [id |-> i, boardId |-> BoardOfOrder(i), order |-> o[i]]]
    /\ cards = <<>>
    /\ boards = <<Board(1), Board(2)>>
    /\ currentBoard = Board(1)
    /\ currentSlot = 1
    /\ boardFilter = ""
    /\ calls = EmptyBag
    /\ last = [act |-> "init", phase |-> "init", log |-> <<>>]
    /\ live = StackIdsOrder

NextFrame ==
    \/ \E removedIndex, addedIndex \in Indices(stacks, currentBoard.id) :
            /\ NumCalls < MaxCalls
            /\ orderStackAction(stacksByBoard(stacks, currentBoard.id)[removedIndex + 1],
                                removedIndex, addedIndex)
    \/ \E c \in Pending : orderStackResolved(c)
    \/ \E c \in Pending : \E hasResponse \in BOOLEAN : orderStackCatch(c, hasResponse)
    \/ \E i \in 1..Len(stacks) :
         \E removedIndex, addedIndex \in Indices(stacks, stacks[i].boardId) :
            /\ stacks[i].boardId # currentBoard.id
            /\ commitOrderStack(stacks[i], removedIndex, addedIndex)

SpecFrame == InitFrame /\ [][NextFrame]_vars

\* Record new is record old but for the value of its order field.
SameButOrder(old, new) ==
    /\ DOMAIN new = DOMAIN old
    /\ \A f \in (DOMAIN old) \ {"order"} : new[f] = old[f]

\* C20: an orderStack mutation for a stack of board X, committed on its own or
\* by a reorder's dispatch or failure callback, changes only the order field of
\* stacks of board X: the records keep their positions in the collection, their
\* ids, boards and other fields, the stacks of every other board keep their
\* order values, and the mutation issues no remote call (the only call of a
\* step is the one the dispatch makes; callbacks take their own call away).
C20_ReorderFrame ==
    [][\A after \in {<<stacks', calls', last'>>} :
        after[3].act = "orderStack"
        => \A X \in {IF after[3].phase = "commit" THEN after[3].boardId ELSE currentBoard.id} :
            /\ Len(after[1]) = Len(stacks)
            /\ \A i \in 1..Len(stacks) :
                  /\ after[1][i].id = stacks[i].id
                  /\ SameButOrder(stacks[i], after[1][i])
                  /\ stacks[i].boardId # X => after[1][i] = stacks[i]
            /\ after[3].phase = "commit" => after[2] = calls
            /\ after[3].phase = "dispatch"
                  => BagCardinality(after[2]) = BagCardinality(calls) + 1
            /\ after[3].phase \in {"resolved", "catch"}
                  => BagCardinality(after[2]) = BagCardinality(calls) - 1
      ]_vars

\* A failure callback has rolled a reorder back on board 1, whose order values
\* are 0..n-1 now, while the stacks of board 2 carry the order values they were
\* loaded with, which are not, and titled records are in the collection.
C20_Witness ==
    /\ last.act = "orderStack" /\ last.phase = "catch" /\ last.hasResponse
    /\ Contiguous(OrderOf(stacks, 1))
    /\ ~Contiguous(OrderOf(stacks, 2))
    /\ \E i \in 1..Len(stacks) : "title" \in DOMAIN stacks[i]

============================================================================
